---- MODULE Spec2Model ----
(***************************************************************************)
(* A model of tinybooklet (src/tinybooklet.py): the imposition run         *)
(* impose() as a state machine (validation, padding, pairing into spreads, *)
(* packing onto sheets, writing the sheets), and its nested functions      *)
(* pad_pages, make_spreads and lay_out_spreads as operators.               *)
(*                                                                         *)
(* Lengths are Python floats in the source.  Here they are exact rationals *)
(* <<n, d>> in lowest terms with d > 0, so the model says what the         *)
(* arithmetic of the source computes up to floating-point rounding.        *)
(***************************************************************************)
EXTENDS Integers, Sequences, FiniteSets, TLC

\* ------------------------------------------------------------------ bounds
MaxPages == 9
MaxLastPages == 6
MaxNum == 2
MaxDenom == 4

\* ------------------------------------------------------------- rationals
RECURSIVE GCD(_, _)
GCD(a, b) == IF b = 0 THEN a ELSE GCD(b, a % b)

Abs(i) == IF i < 0 THEN -i ELSE i

Rat(n, d) ==
    LET g == GCD(Abs(n), Abs(d))
        s == IF d < 0 THEN -1 ELSE 1
    IN <<(s * n) \div g, (s * d) \div g>>

RInt(i) == <<i, 1>>
RMul(a, b) == Rat(a[1] * b[1], a[2] * b[2])
RDiv(a, b) == Rat(a[1] * b[2], a[2] * b[1])
RAdd(a, b) == Rat(a[1] * b[2] + b[1] * a[2], a[2] * b[2])
RSub(a, b) == Rat(a[1] * b[2] - b[1] * a[2], a[2] * b[2])
\* int(a // b) for b > 0
RFloorDiv(a, b) == (a[1] * b[2]) \div (a[2] * b[1])

PointsPerInch == 72
Half == Rat(1, 2)

\* --------------------------------------------------------- Python slicing
\* The index a slice bound denotes in a list of length n.
PyIndex(i, n) ==
    IF i < 0 THEN (IF i + n < 0 THEN 0 ELSE i + n)
    ELSE (IF i > n THEN n ELSE i)

\* s[lo:hi] for a 0-based Python list held as a 1-based sequence.
PySlice(s, lo, hi) ==
    LET a == PyIndex(lo, Len(s))
        b == PyIndex(hi, Len(s))
    IN IF a >= b THEN <<>> ELSE SubSeq(s, a + 1, b)

\* -------------------------------------------------------------- the pages
OriginalPage(n) == [kind |-> "original", page_number |-> n]
BlankPage == [kind |-> "blank"]

\* [OriginalPage(n) for n in range(count)]
OriginalPages(count) == [i \in 1..count |-> OriginalPage(i - 1)]

\* pad_pages adding len % 4 blank pages instead of 4 - len % 4.
pad_pages_wrong_count(pages, num_last_pages) ==
    IF Len(pages) % 4 # 0
    THEN LET pages_to_add == Len(pages) % 4
             first_pages == PySlice(pages, 0, Len(pages) - num_last_pages)
             last_pages == PySlice(pages, Len(pages) - num_last_pages, Len(pages))
             blank_pages == [i \in 1..pages_to_add |-> BlankPage]
         IN first_pages \o blank_pages \o last_pages
    ELSE pages

\* pad_pages appending the blank pages after the last pages.
pad_pages_blanks_last(pages, num_last_pages) ==
    IF Len(pages) % 4 # 0
    THEN LET pages_to_add == 4 - (Len(pages) % 4)
             first_pages == PySlice(pages, 0, Len(pages) - num_last_pages)
             last_pages == PySlice(pages, Len(pages) - num_last_pages, Len(pages))
             blank_pages == [i \in 1..pages_to_add |-> BlankPage]
         IN first_pages \o last_pages \o blank_pages
    ELSE pages

pad_pages(pages, num_last_pages) ==
    IF Len(pages) % 4 # 0
    THEN LET pages_to_add == 4 - (Len(pages) % 4)
             first_pages == PySlice(pages, 0, Len(pages) - num_last_pages)
             last_pages == PySlice(pages, Len(pages) - num_last_pages, Len(pages))
             blank_pages == [i \in 1..pages_to_add |-> BlankPage]
         IN first_pages \o blank_pages \o last_pages
    ELSE pages

\* ------------------------------------------------------------ the spreads
\* The outer spread with the two right-hand pages exchanged.
OuterSpread_swapped(pages) ==
    [front_left |-> pages[2], front_right |-> pages[Len(pages)],
     back_left |-> pages[1], back_right |-> pages[Len(pages) - 1]]

\* Spread(back_left=pages[0], front_left=pages[1], back_right=pages[-1],
\*        front_right=pages[-2])
OuterSpread(pages) ==
    [front_left |-> pages[2], front_right |-> pages[Len(pages) - 1],
     back_left |-> pages[1], back_right |-> pages[Len(pages)]]

RECURSIVE make_spreads(_)
make_spreads(pages) ==
    IF Len(pages) = 0 THEN <<>>
    ELSE <<OuterSpread(pages)>> \o make_spreads(PySlice(pages, 2, -2))

\* ------------------------------------------------------------- the sheets
NoError == "none"
MixedSizes == "pdf has multiple different page sizes"
SheetFull == "cannot add spread to an output sheet that is already full"

\* spread_size = (input_page_size[0] * scale * 2, input_page_size[1] * scale)
SpreadSize(page_size, sc) ==
    <<RMul(RMul(page_size[1], sc), RInt(2)), RMul(page_size[2], sc)>>

OutputSheet(paper_size) == [paper_size |-> paper_size, spreads |-> <<>>]

spread_grid_rows(sheet, spread_size) == RFloorDiv(sheet.paper_size[2], spread_size[2])
spread_grid_cols(sheet, spread_size) == RFloorDiv(sheet.paper_size[1], spread_size[1])
max_spreads(sheet, spread_size) ==
    spread_grid_rows(sheet, spread_size) * spread_grid_cols(sheet, spread_size)

\* is_full with > for >=.
is_full_late(sheet, spread_size) == Len(sheet.spreads) > max_spreads(sheet, spread_size)

is_full(sheet, spread_size) == Len(sheet.spreads) >= max_spreads(sheet, spread_size)

\* add_spread: the sheet afterwards, and the exception raised (or NoError).
add_spread(sheet, spread, spread_size) ==
    IF is_full(sheet, spread_size)
    THEN [sheet |-> sheet, raised |-> SheetFull]
    ELSE [sheet |-> [sheet EXCEPT !.spreads = Append(@, spread)], raised |-> NoError]

\* One iteration of the loop of lay_out_spreads over `sheets` (non-empty).
LayOutIter(sheets, spread, page_size, spread_size) ==
    LET grown == IF is_full(sheets[Len(sheets)], spread_size)
                 THEN Append(sheets, OutputSheet(page_size))
                 ELSE sheets
        added == add_spread(grown[Len(grown)], spread, spread_size)
    IN [sheets |-> [grown EXCEPT ![Len(grown)] = added.sheet],
        raised |-> added.raised]

RECURSIVE LayOutLoop(_, _, _, _, _)
LayOutLoop(sheets, spreads, i, page_size, spread_size) ==
    IF i > Len(spreads) THEN [sheets |-> sheets, raised |-> NoError]
    ELSE LET it == LayOutIter(sheets, spreads[i], page_size, spread_size)
         IN IF it.raised # NoError THEN it
            ELSE LayOutLoop(it.sheets, spreads, i + 1, page_size, spread_size)

\* The sheets lay_out_spreads returns, or those built when it raised.
lay_out_spreads(spreads, page_size, spread_size) ==
    LayOutLoop(<<OutputSheet(page_size)>>, spreads, 1, page_size, spread_size)

\* --------------------------------------------------- placing the spreads
\* The next coordinate with > for >=: a row one spread too long.
NextCoord_late(x, y, cols) == IF x + 1 > cols THEN <<0, y + 1>> ELSE <<x + 1, y>>

\* The coordinate after (x, y) in iter_spreads.
NextCoord(x, y, cols) == IF x + 1 >= cols THEN <<0, y + 1>> ELSE <<x + 1, y>>

RECURSIVE IterFrom(_, _, _, _, _)
IterFrom(spreads, cols, i, x, y) ==
    IF i > Len(spreads) THEN <<>>
    ELSE <<[x |-> x, y |-> y, spread |-> spreads[i]]>>
         \o IterFrom(spreads, cols, i + 1, NextCoord(x, y, cols)[1], NextCoord(x, y, cols)[2])

\* What iter_spreads yields, in order.
iter_spreads(sheet, spread_size) ==
    IterFrom(sheet.spreads, spread_grid_cols(sheet, spread_size), 1, 0, 0)

\* output.add_blank_page(width, height), with the list of drawing commands that
\* write_sheets keeps for it and appends to its contents.  The stroke colour and
\* width of the first command are passed through unread.
BlankCanvas(width, height) ==
    [width |-> width, height |-> height, merged |-> <<>>,
     drawing_commands |-> <<[op |-> "RG w"]>>]

\* The rectangle add_page draws: '{left} {bottom} {width} {height} re s'.
CutRect(x, y, page_size, sc) ==
    [op |-> "re s",
     left |-> RMul(x, RInt(PointsPerInch)),
     bottom |-> RMul(y, RInt(PointsPerInch)),
     width |-> RMul(RMul(page_size[1], sc), RInt(PointsPerInch)),
     height |-> RMul(RMul(page_size[2], sc), RInt(PointsPerInch))]

\* merge_transformed_page(input.get_page(n), scale(sc, sc).translate(x*72, y*72))
Merged(input_page, x, y, sc) ==
    [page_number |-> input_page.page_number, scale |-> sc,
     tx |-> RMul(x, RInt(PointsPerInch)), ty |-> RMul(y, RInt(PointsPerInch))]

\* add_page drawing the cut rectangle only around pages that are not blank.
add_page_no_blank_rect(canvas, input_page, x, y, marks, page_size, sc) ==
    IF input_page.kind = "blank" THEN canvas
    ELSE LET marked == IF marks
                       THEN [canvas EXCEPT !.drawing_commands =
                                               Append(@, CutRect(x, y, page_size, sc))]
                       ELSE canvas
         IN [marked EXCEPT !.merged = Append(@, Merged(input_page, x, y, sc))]

add_page(canvas, input_page, x, y, marks, page_size, sc) ==
    LET marked == IF marks
                  THEN [canvas EXCEPT !.drawing_commands =
                                          Append(@, CutRect(x, y, page_size, sc))]
                  ELSE canvas
    IN IF input_page.kind = "blank" THEN marked
       ELSE [marked EXCEPT !.merged = Append(@, Merged(input_page, x, y, sc))]

\* The four add_page calls of write_sheets for one spread at (spread_x, spread_y).
PlaceSpread(sides, it, marks, page_size, sc) ==
    LET spread_size == SpreadSize(page_size, sc)
        output_sheet_width == page_size[1]
        sy == RMul(spread_size[2], RInt(it.y))
        f1 == add_page(sides.front, it.spread.front_left,
                       RMul(spread_size[1], RInt(it.x)), sy, marks, page_size, sc)
        f2 == add_page(f1, it.spread.front_right,
                       RMul(spread_size[1], RAdd(RInt(it.x), Half)), sy,
                       marks, page_size, sc)
        b1 == add_page(sides.back, it.spread.back_left,
                       RSub(output_sheet_width,
                            RMul(spread_size[1], RSub(RInt(it.x + 1), Half))), sy,
                       marks, page_size, sc)
        b2 == add_page(b1, it.spread.back_right,
                       RSub(output_sheet_width,
                            RMul(spread_size[1], RInt(it.x + 1))), sy,
                       marks, page_size, sc)
    IN [front |-> f2, back |-> b2]

RECURSIVE PlaceAll(_, _, _, _, _, _)
PlaceAll(sides, its, i, marks, page_size, sc) ==
    IF i > Len(its) THEN sides
    ELSE PlaceAll(PlaceSpread(sides, its[i], marks, page_size, sc),
                  its, i + 1, marks, page_size, sc)

\* The front and the back side write_sheets adds to the output for one sheet.
WrittenSides(sheet, marks, page_size, sc) ==
    LET blank == BlankCanvas(RMul(page_size[1], RInt(PointsPerInch)),
                             RMul(page_size[2], RInt(PointsPerInch)))
    IN PlaceAll([front |-> blank, back |-> blank],
                iter_spreads(sheet, SpreadSize(page_size, sc)), 1,
                marks, page_size, sc)

\* ------------------------------------------------------------- the inputs
\* A page's mediabox (points) and user unit.
LetterBox == [width |-> 612, height |-> 792, user_unit |-> 1]
Boxes == {LetterBox,
          [width |-> 306, height |-> 396, user_unit |-> 2],
          [width |-> 595, height |-> 842, user_unit |-> 1]}

\* (mediabox.width * user_unit / 72, mediabox.height * user_unit / 72)
PageSizeOf(box) ==
    <<RDiv(RMul(RInt(box.width), RInt(box.user_unit)), RInt(PointsPerInch)),
      RDiv(RMul(RInt(box.height), RInt(box.user_unit)), RInt(PointsPerInch))>>

\* Documents of n letter pages, page k (if any) replaced by another box.
Documents ==
    {[i \in 1..n |-> IF i = k THEN b ELSE LetterBox] :
        n \in 0..MaxPages, k \in 0..MaxPages, b \in Boxes}

\* int(num) / int(denom) for the --scale argument "num/denom"
Scales == {Rat(num, denom) : num \in 1..MaxNum, denom \in 1..MaxDenom}

\* ---------------------------------------------------------------- state
VARIABLES
    input_pages,      \* input.pages: the mediabox and user unit of each page
    scale,            \* impose's scale
    num_last_pages,   \* impose's num_last_pages
    mark_cut_lines,   \* impose's mark_cut_lines
    pc,               \* where the run is
    err,              \* the message of the exception that ended the run
    input_page_size,  \* impose's input_page_size, <<>> until validation
    pages,            \* pad_pages' result
    spreads,          \* make_spreads' result
    sheets,           \* the list lay_out_spreads builds
    spread_i,         \* lay_out_spreads' position in spreads
    sheet_i,          \* write_sheets' position in sheets
    output,           \* the pages added to the PdfWriter
    file,             \* what main wrote to args.output
    call              \* the last direct call of a nested function (SpecFn)

vars == <<input_pages, scale, num_last_pages, mark_cut_lines, pc, err,
          input_page_size, pages, spreads, sheets, spread_i, sheet_i,
          output, file, call>>

inputs == <<input_pages, scale, num_last_pages, mark_cut_lines>>

NoCall == [fn |-> "none"]

\* main() has parsed the arguments and opened the input; impose() starts.
Init ==
    /\ input_pages \in Documents
    /\ scale \in Scales
    /\ num_last_pages \in 0..MaxLastPages
    /\ mark_cut_lines \in BOOLEAN
    /\ pc = "validate"
    /\ err = NoError
    /\ input_page_size = <<>>
    /\ pages = <<>>
    /\ spreads = <<>>
    /\ sheets = <<>>
    /\ spread_i = 0
    /\ sheet_i = 0
    /\ output = <<>>
    /\ file = <<>>
    /\ call = NoCall

\* set(map(lambda page: (...), input.pages))
InputPageSizes(doc) == {PageSizeOf(doc[i]) : i \in 1..Len(doc)}

\* The exception the size check raises for `doc`, or NoError.
SizeCheck(doc) == IF Cardinality(InputPageSizes(doc)) # 1 THEN MixedSizes ELSE NoError

Validate ==
    /\ pc = "validate"
    /\ IF SizeCheck(input_pages) # NoError
       THEN /\ pc' = "failed"
            /\ err' = SizeCheck(input_pages)
            /\ UNCHANGED input_page_size
       ELSE /\ pc' = "pad_pages"
            /\ input_page_size' = CHOOSE sz \in InputPageSizes(input_pages) : TRUE
            /\ UNCHANGED err
    /\ UNCHANGED <<inputs, pages, spreads, sheets, spread_i, sheet_i, output, file, call>>

PadPages ==
    /\ pc = "pad_pages"
    /\ pages' = pad_pages(OriginalPages(Len(input_pages)), num_last_pages)
    /\ pc' = "make_spreads"
    /\ UNCHANGED <<inputs, err, input_page_size, spreads, sheets, spread_i, sheet_i,
                   output, file, call>>

MakeSpreads ==
    /\ pc = "make_spreads"
    /\ spreads' = make_spreads(pages)
    /\ pc' = "lay_out_spreads"
    /\ UNCHANGED <<inputs, err, input_page_size, pages, sheets, spread_i, sheet_i,
                   output, file, call>>

\* sheets = [OutputSheet(input_page_size)]
LayOutBegin ==
    /\ pc = "lay_out_spreads"
    /\ sheets' = <<OutputSheet(input_page_size)>>
    /\ spread_i' = 1
    /\ pc' = "lay_out_loop"
    /\ UNCHANGED <<inputs, err, input_page_size, pages, spreads, sheet_i, output, file, call>>

\* One iteration of `for spread in spreads`.
LayOutStep ==
    /\ pc = "lay_out_loop"
    /\ spread_i <= Len(spreads)
    /\ LET it == LayOutIter(sheets, spreads[spread_i], input_page_size,
                            SpreadSize(input_page_size, scale))
       IN /\ sheets' = it.sheets
          /\ IF it.raised # NoError
             THEN /\ pc' = "failed"
                  /\ err' = it.raised
                  /\ UNCHANGED spread_i
             ELSE /\ spread_i' = spread_i + 1
                  /\ UNCHANGED <<pc, err>>
    /\ UNCHANGED <<inputs, input_page_size, pages, spreads, sheet_i, output, file, call>>

\* return sheets
LayOutReturn ==
    /\ pc = "lay_out_loop"
    /\ spread_i > Len(spreads)
    /\ pc' = "write_sheets"
    /\ sheet_i' = 1
    /\ UNCHANGED <<inputs, err, input_page_size, pages, spreads, sheets, spread_i,
                   output, file, call>>

\* One iteration of `for sheet in sheets`.
WriteSheet ==
    /\ pc = "write_sheets"
    /\ sheet_i <= Len(sheets)
    /\ LET sides == WrittenSides(sheets[sheet_i], mark_cut_lines, input_page_size, scale)
       IN output' = output \o <<sides.front, sides.back>>
    /\ sheet_i' = sheet_i + 1
    /\ UNCHANGED <<inputs, pc, err, input_page_size, pages, spreads, sheets, spread_i,
                   file, call>>

\* impose returns.
WriteSheetsReturn ==
    /\ pc = "write_sheets"
    /\ sheet_i > Len(sheets)
    /\ pc' = "done"
    /\ UNCHANGED <<inputs, err, input_page_size, pages, spreads, sheets, spread_i,
                   sheet_i, output, file, call>>

\* main: output_pdf.write(f)
WriteFile ==
    /\ pc = "done"
    /\ file' = output
    /\ pc' = "exit"
    /\ UNCHANGED <<inputs, err, input_page_size, pages, spreads, sheets, spread_i,
                   sheet_i, output, call>>

Next ==
    \/ Validate
    \/ PadPages
    \/ MakeSpreads
    \/ LayOutBegin
    \/ LayOutStep
    \/ LayOutReturn
    \/ WriteSheet
    \/ WriteSheetsReturn
    \/ WriteFile

Spec == Init /\ [][Next]_vars

\* ------------------------------------------- the nested functions, called
\* directly on inputs drawn from bounded sets
InitFn ==
    /\ input_pages = <<>>
    /\ scale = RInt(1)
    /\ num_last_pages = 0
    /\ mark_cut_lines = FALSE
    /\ pc = "fn"
    /\ err = NoError
    /\ input_page_size = <<>>
    /\ pages = <<>>
    /\ spreads = <<>>
    /\ sheets = <<>>
    /\ spread_i = 0
    /\ sheet_i = 0
    /\ output = <<>>
    /\ file = <<>>
    /\ call = NoCall

pipeline == <<input_pages, scale, num_last_pages, mark_cut_lines, pc, err,
              input_page_size, pages, spreads, sheets, spread_i, sheet_i,
              output, file>>

CallPadPages ==
    /\ \E n \in 0..MaxPages, last \in 0..MaxLastPages :
          call' = [fn |-> "pad_pages", pages |-> OriginalPages(n),
                   num_last_pages |-> last,
                   result |-> pad_pages(OriginalPages(n), last)]
    /\ UNCHANGED pipeline

CallMakeSpreads ==
    /\ \E n \in 0..MaxPages, last \in 0..MaxLastPages :
          LET padded == pad_pages(OriginalPages(n), last)
          IN call' = [fn |-> "make_spreads", pages |-> padded,
                      result |-> make_spreads(padded)]
    /\ UNCHANGED pipeline

CallLayOutSpreads ==
    /\ \E n \in 0..MaxPages, box \in Boxes, sc \in Scales :
          LET made == make_spreads(pad_pages(OriginalPages(n), 0))
          IN call' = [fn |-> "lay_out_spreads", spreads |-> made,
                      input_page_size |-> PageSizeOf(box), scale |-> sc,
                      result |-> lay_out_spreads(made, PageSizeOf(box),
                                                 SpreadSize(PageSizeOf(box), sc))]
    /\ UNCHANGED pipeline

NextFn ==
    \/ CallPadPages
    \/ CallMakeSpreads
    \/ CallLayOutSpreads

SpecFn == InitFn /\ [][NextFn]_vars

\* ================================================================ claims
Min(a, b) == IF a < b THEN a ELSE b
CeilDiv(a, b) == (a + b - 1) \div b

\* ---- pad_pages (under SpecFn)
PadCall == call.fn = "pad_pages" /\ call.num_last_pages <= Len(call.pages)

\* C1: for 0 <= lastPageCount <= sourcePageCount, the length of the padded
\* sequence is the smallest multiple of 4 that is >= sourcePageCount.
C1_PaddedLength ==
    PadCall =>
        LET n == Len(call.pages)
            m == Len(call.result)
        IN /\ m % 4 = 0
           /\ m >= n
           /\ \A k \in 0..m : (k % 4 = 0 /\ k >= n) => k >= m

C1_Witness ==
    /\ PadCall
    /\ Len(call.pages) = 5
    /\ call.num_last_pages = 1
    /\ Len(call.result) = 8

\* C2: for 0 <= lastPageCount <= sourcePageCount, the last lastPageCount entries
\* of the padded sequence are the original last lastPageCount pages in order, the
\* pages before them keep their places at the front, and every blank page lies
\* between the two: directly before the trailing pages.
C2_TrailingPages ==
    PadCall =>
        LET n == Len(call.pages)
            m == Len(call.result)
            last == call.num_last_pages
        IN /\ SubSeq(call.result, m - last + 1, m) = SubSeq(call.pages, n - last + 1, n)
           /\ SubSeq(call.result, 1, n - last) = SubSeq(call.pages, 1, n - last)
           /\ \A i \in 1..m :
                 call.result[i].kind = "blank" <=> (n - last < i /\ i <= m - last)

C2_Witness ==
    /\ PadCall
    /\ Len(call.pages) = 6
    /\ call.num_last_pages = 2
    /\ call.result[5] = BlankPage
    /\ call.result[6] = BlankPage
    /\ call.result[7] = OriginalPage(4)
    /\ call.result[8] = OriginalPage(5)

\* ---- make_spreads (under SpecFn)
\* The pages in the slots of a list of spreads, spread by spread.
RECURSIVE SlotPages(_)
SlotPages(sp) ==
    IF Len(sp) = 0 THEN <<>>
    ELSE <<sp[1].back_left, sp[1].front_left, sp[1].front_right, sp[1].back_right>>
         \o SlotPages(Tail(sp))

Occurrences(seq, v) == Cardinality({i \in 1..Len(seq) : seq[i] = v})

\* C4: for a page sequence P of length n, a multiple of 4, make_spreads returns
\* n/4 spreads; spread k (from 0) has back_left = P[2k], front_left = P[2k+1],
\* front_right = P[n-2-2k], back_right = P[n-1-2k] (0-based), and the slots hold
\* each page as often as P does: none dropped, none duplicated.
C4_SpreadPositions ==
    (call.fn = "make_spreads" /\ Len(call.pages) % 4 = 0) =>
        LET P == call.pages
            n == Len(call.pages)
            R == call.result
        IN /\ Len(R) * 4 = n
           /\ \A k \in 0..(Len(R) - 1) :
                 /\ R[k + 1].back_left = P[2 * k + 1]
                 /\ R[k + 1].front_left = P[2 * k + 2]
                 /\ R[k + 1].front_right = P[n - 2 - 2 * k + 1]
                 /\ R[k + 1].back_right = P[n - 1 - 2 * k + 1]
           /\ \A i \in 1..n : Occurrences(SlotPages(R), P[i]) = Occurrences(P, P[i])
           /\ Len(SlotPages(R)) = n

C4_Witness ==
    /\ call.fn = "make_spreads"
    /\ Len(call.pages) = 12
    /\ Len(call.result) = 3
    /\ call.result[3].front_left = BlankPage
    /\ call.result[1].back_right = OriginalPage(8)

\* ---- lay_out_spreads (under SpecFn)
CallCapacity ==
    max_spreads(OutputSheet(call.input_page_size),
                SpreadSize(call.input_page_size, call.scale))

\* The sheets are the spreads cut, in order, into `count` groups of `capacity`,
\* the last one possibly shorter, none above rows * cols.
ChunkedInto(count) ==
    LET S == call.spreads
        got == call.result.sheets
    IN /\ call.result.raised = NoError
       /\ Len(got) = count
       /\ \A k \in 1..Len(got) :
             /\ got[k].spreads = SubSeq(S, (k - 1) * CallCapacity + 1,
                                        Min(k * CallCapacity, Len(S)))
             /\ Len(got[k].spreads)
                   <= spread_grid_rows(got[k], SpreadSize(call.input_page_size, call.scale))
                      * spread_grid_cols(got[k], SpreadSize(call.input_page_size, call.scale))

AfterPadding ==
    pc \in {"make_spreads", "lay_out_spreads", "lay_out_loop", "write_sheets",
            "done", "exit"}

\* C3: a run with lastPageCount > sourcePageCount is rejected before padding:
\* it yields no padded sequence and never gets past pad_pages.
C3_LastPagesRejected ==
    num_last_pages > Len(input_pages) => (pages = <<>> /\ ~AfterPadding)

\* The capacity of a sheet in this run, once the page size is known.
RunCapacity ==
    max_spreads(OutputSheet(input_page_size), SpreadSize(input_page_size, scale))

\* C6: when the capacity is 0 the run fails with a configuration error (not with
\* the size error, not with the overfill error) and nothing is written.
C6_CapacityZeroIsConfigurationError ==
    (input_page_size # <<>> /\ RunCapacity = 0) =>
        /\ pc \notin {"write_sheets", "done", "exit"}
        /\ output = <<>>
        /\ pc = "failed" => err \notin {NoError, MixedSizes, SheetFull}

ValidInput ==
    /\ Cardinality(InputPageSizes(input_pages)) = 1
    /\ scale[1] > 0
    /\ num_last_pages <= Len(input_pages)

\* C7: on valid input (one page size, positive scale, 0 <= lastPageCount <=
\* sourcePageCount) add_spread is never called on a full sheet: the run never
\* ends in the overfill error.
C7_OverfillUnreachable == ValidInput => err # SheetFull

\* C8: the run fails in validation exactly when more than one distinct page size
\* is found, and then nothing has been padded, paired, packed or written.
C8_FailsIffSeveralSizes ==
    pc # "validate" =>
        /\ (err = MixedSizes) <=> (Cardinality(InputPageSizes(input_pages)) > 1)
        /\ err = MixedSizes =>
              /\ pc = "failed"
              /\ pages = <<>> /\ spreads = <<>> /\ sheets = <<>>
              /\ output = <<>> /\ file = <<>>

\* ---- placement (under Spec)
RunSpreadSize == SpreadSize(input_page_size, scale)
Points(x) == RMul(x, RInt(PointsPerInch))

\* The sheets write_sheets has written so far.
WrittenSheets == 1..(Len(output) \div 2)
FrontOf(s) == output[2 * s - 1]
BackOf(s) == output[2 * s]

\* The claimed origin (inches) of each slot of the i-th spread (from 0) of a
\* sheet with `cols` columns.
SlotOrigin(slot, i, cols) ==
    LET gx == i % cols
        gy == i \div cols
        sw == RunSpreadSize[1]
        sh == RunSpreadSize[2]
        W == input_page_size[1]
        y == RMul(sh, RInt(gy))
    IN CASE slot = "front_left" -> <<RMul(sw, RInt(gx)), y>>
         [] slot = "front_right" -> <<RMul(sw, RAdd(RInt(gx), Half)), y>>
         [] slot = "back_right" -> <<RSub(W, RMul(sw, RInt(gx + 1))), y>>
         [] slot = "back_left" -> <<RSub(W, RMul(sw, RAdd(RInt(gx), Half))), y>>

Slots == {"front_left", "front_right", "back_left", "back_right"}
CanvasOf(s, slot) == IF slot \in {"front_left", "front_right"} THEN FrontOf(s) ELSE BackOf(s)
\* The place of a slot's add_page call among the calls for its canvas.
CallOrder(slot, i) == 2 * i + (IF slot \in {"front_left", "back_left"} THEN 1 ELSE 2)

Rects(canvas) ==
    {k \in 1..Len(canvas.drawing_commands) : canvas.drawing_commands[k].op = "re s"}

\* A page is merged onto the output once, on `canvas` at `at`.
MergedOnceAt(page, s, slot, at) ==
    /\ \E k \in 1..Len(CanvasOf(s, slot).merged) :
          /\ CanvasOf(s, slot).merged[k].page_number = page.page_number
          /\ CanvasOf(s, slot).merged[k].tx = Points(at[1])
          /\ CanvasOf(s, slot).merged[k].ty = Points(at[2])
          /\ CanvasOf(s, slot).merged[k].scale = scale
    /\ Cardinality({<<c, k>> \in (1..Len(output)) \X (0..(4 * MaxPages)) :
                       /\ k \in 1..Len(output[c].merged)
                       /\ output[c].merged[k].page_number = page.page_number}) = 1

\* C9: on a written sheet with cols >= 1 the i-th spread (from 0) is at gx = i mod
\* cols, gy = i div cols < rows, and its slots are placed at front_left (sw*gx,
\* sh*gy), front_right (sw*(gx+0.5), sh*gy), back_right (W - sw*(gx+1), sh*gy),
\* back_left (W - sw*(gx+0.5), sh*gy): there the slot's page is merged and (with cut
\* lines) its rectangle drawn, and each back rectangle is the mirror image, about
\* the sheet's vertical centerline, of the rectangle of the front slot it backs.
C9_SlotPlacement ==
    \A s \in WrittenSheets :
        LET sheet == sheets[s]
            cols == spread_grid_cols(sheet, RunSpreadSize)
            rows == spread_grid_rows(sheet, RunSpreadSize)
        IN \A i \in 0..(Len(sheet.spreads) - 1) :
              /\ cols >= 1
              /\ i \div cols < rows
              /\ \A slot \in Slots :
                    LET page == sheet.spreads[i + 1][slot]
                        at == SlotOrigin(slot, i, cols)
                        rect == CanvasOf(s, slot).drawing_commands[1 + CallOrder(slot, i)]
                    IN /\ page.kind = "original" => MergedOnceAt(page, s, slot, at)
                       /\ mark_cut_lines =>
                             /\ rect.op = "re s"
                             /\ rect.left = Points(at[1])
                             /\ rect.bottom = Points(at[2])
              /\ mark_cut_lines =>
                    \A pair \in {<<"front_left", "back_left">>, <<"front_right", "back_right">>} :
                        LET f == FrontOf(s).drawing_commands[1 + CallOrder(pair[1], i)]
                            b == BackOf(s).drawing_commands[1 + CallOrder(pair[2], i)]
                        IN /\ b.left = RSub(Points(input_page_size[1]), RAdd(f.left, f.width))
                           /\ RAdd(b.left, b.width) = RSub(Points(input_page_size[1]), f.left)
                           /\ b.bottom = f.bottom /\ b.height = f.height

C9_Witness ==
    /\ pc = "exit"
    /\ mark_cut_lines
    /\ \E s \in WrittenSheets :
          /\ spread_grid_cols(sheets[s], RunSpreadSize) = 2
          /\ Len(sheets[s].spreads) = 3
          /\ sheets[s].spreads[3].back_left = OriginalPage(4)
          /\ \E k \in 1..Len(BackOf(s).merged) :
                /\ BackOf(s).merged[k].page_number = 4
                /\ BackOf(s).merged[k].ty # RInt(0)

\* The slots of a written sheet each have exactly one rectangle, at their origin
\* and of the given size (points); a blank slot has no page merged at its origin and
\* an original one has its page; without cut lines there is no rectangle at all.
CutRectsSized(width, height) ==
    \A s \in WrittenSheets :
        LET sheet == sheets[s]
            cols == spread_grid_cols(sheet, RunSpreadSize)
        IN /\ ~mark_cut_lines => (Rects(FrontOf(s)) = {} /\ Rects(BackOf(s)) = {})
           /\ mark_cut_lines =>
                 /\ Cardinality(Rects(FrontOf(s))) = 2 * Len(sheet.spreads)
                 /\ Cardinality(Rects(BackOf(s))) = 2 * Len(sheet.spreads)
           /\ \A i \in 0..(Len(sheet.spreads) - 1), slot \in Slots :
                 LET page == sheet.spreads[i + 1][slot]
                     at == SlotOrigin(slot, i, cols)
                     canvas == CanvasOf(s, slot)
                     here == {k \in Rects(canvas) :
                                 /\ canvas.drawing_commands[k].left = Points(at[1])
                                 /\ canvas.drawing_commands[k].bottom = Points(at[2])}
                     drawn == {k \in 1..Len(canvas.merged) :
                                  /\ canvas.merged[k].tx = Points(at[1])
                                  /\ canvas.merged[k].ty = Points(at[2])}
                 IN /\ mark_cut_lines =>
                          /\ Cardinality(here) = 1
                          /\ \A k \in here :
                                /\ canvas.drawing_commands[k].width = width
                                /\ canvas.drawing_commands[k].height = height
                    /\ page.kind = "blank" => drawn = {}
                    /\ page.kind = "original" => Cardinality(drawn) = 1

\* C10 as stated: with cut lines every slot, blank or not, has exactly one
\* rectangle at its origin, sized spreadWidth*scale by spreadHeight*scale; a blank
\* slot has no page drawn; without cut lines no rectangle is drawn.
C10_RectSizedSpreadTimesScale ==
    CutRectsSized(Points(RMul(RunSpreadSize[1], scale)),
                  Points(RMul(RunSpreadSize[2], scale)))

\* C10 amended: the same, with the rectangle sized pageWidth*scale by
\* pageHeight*scale, which is spreadWidth/2 by spreadHeight.
C10_RectSizedPageTimesScale ==
    /\ CutRectsSized(Points(RMul(input_page_size[1], scale)),
                     Points(RMul(input_page_size[2], scale)))
    /\ CutRectsSized(Points(RMul(RunSpreadSize[1], Half)), Points(RunSpreadSize[2]))

C10_Witness ==
    /\ pc = "exit"
    /\ mark_cut_lines
    /\ \E s \in WrittenSheets, i \in 1..MaxPages :
          /\ i <= Len(sheets[s].spreads)
          /\ sheets[s].spreads[i].front_right = BlankPage
          /\ sheets[s].spreads[i].front_left.kind = "original"
          /\ Cardinality(Rects(FrontOf(s))) = 2 * Len(sheets[s].spreads)
          /\ Len(FrontOf(s).merged) < 2 * Len(sheets[s].spreads)

====
